---- MODULE Spec2Model ----
(***************************************************************************)
(* Model of gputemps.c: GPU core / junction / VRAM temperature monitor.    *)
(*                                                                         *)
(* Physical addresses are 64-bit in the program (pciaddr_t); the model     *)
(* keeps them as records [pg, off] = pg * PG_SZ + off so that addresses at *)
(* or above 2^32 are representable.  A 32-bit register word is kept as two *)
(* 16-bit halves [hi, lo].                                                 *)
(***************************************************************************)
EXTENDS Integers, Sequences, FiniteSets, TLC

VARIABLES
    argv,           \* command-line arguments not yet examined by main
    pc,             \* position of the single thread of the program
    ctx,            \* the Context of main
    running,        \* static volatile sig_atomic_t running
    handlers,       \* TRUE once signal() has installed signal_handler
    term,           \* the terminal: input mode and cursor visibility
    atexit_list,    \* functions registered with atexit, in order
    stdout_buf,     \* bytes printf has put in the stdio buffer of stdout
    stdout_out,     \* bytes written to standard output
    exit_code,      \* value returned from main, NotExited before
    log,            \* acquisitions and releases performed, in order
    loc,            \* locals of the monitor function being executed
    gpu,            \* the GpuDevice being filled by get_gpu_temps
    gt,             \* get_gpu_temps: record used, reads started, result
    refresh_counter,\* static int of monitor_temperatures_table
    hist,           \* observation: cycles started, waits, samples per index
    harness,        \* TRUE when the register reader is driven stand-alone
    rr,             \* activation record of read_register_temp
    fds,            \* number of open /dev/mem descriptors of the process
    maps            \* number of live mappings of /dev/mem

regvars == <<harness, rr, fds, maps>>
mainvars == <<argv, pc, ctx, running, handlers, term, atexit_list, stdout_buf,
              stdout_out, exit_code, log, loc, gpu, gt, refresh_counter, hist>>
vars == <<argv, pc, ctx, running, handlers, term, atexit_list, stdout_buf,
          stdout_out, exit_code, log, loc, gpu, gt, refresh_counter, hist,
          harness, rr, fds, maps>>

----------------------------------------------------------------------------
(* Program constants *)

REFRESH_DURATION == 1
BUFFER_SIZE == 1024
HOTSPOT_REGISTER_OFFSET == 132204      \* 0x0002046C
VRAM_REGISTER_OFFSET == 58024          \* 0x0000E2A8
PG_SZ == 4096                          \* sysconf(_SC_PAGE_SIZE)

HalfWord == 65536                      \* 2^16: a uint32_t is two halves
PagesPer4G == 1048576                  \* 2^32 / PG_SZ

----------------------------------------------------------------------------
(* Bounds *)

MaxArgs == 2           \* at most this many command-line arguments
MaxDevices == 2        \* nvmlDeviceGetCount reports at most this many
MaxCycles == 2         \* a continuous loop starts at most this many cycles
MaxTemp == 255         \* the largest temperature print_gpu_info is driven with

\* one larger machine: as many devices as there are rows of 68 bytes in
\* the output buffer
ManyDevices == BUFFER_SIZE \div 68

\* what nvmlDeviceGetCount can report when it reports a device at all
DeviceCounts == (1..MaxDevices) \cup {ManyDevices}
MaxCount == IF ManyDevices > MaxDevices THEN ManyDevices ELSE MaxDevices

----------------------------------------------------------------------------
(* Address arithmetic *)

ToAddr(n) == [pg |-> n \div PG_SZ, off |-> n % PG_SZ]

\* a + b on unbounded (64-bit) addresses
AddrAdd(a, b) ==
    LET s == a.off + b.off
    IN  [pg |-> a.pg + b.pg + (s \div PG_SZ), off |-> s % PG_SZ]

\* x & 0xFFFFFFFF, and the conversion of a wider value to uint32_t
Trunc32(a) == [pg |-> a.pg % PagesPer4G, off |-> a.off]

\* x & ~(PG_SZ-1)
PageFloor(a) == [pg |-> a.pg, off |-> 0]

\* a - b for b = PageFloor(a)
AddrSub(a, b) == (a.pg - b.pg) * PG_SZ + (a.off - b.off)

\* line 217: uint32_t reg_addr = (dev->base_addr[0] & 0xFFFFFFFF) + offset;
RegAddr(base, offset) == Trunc32(AddrAdd(Trunc32(base), ToAddr(offset)))

\* line 218: uint32_t base_offset = reg_addr & ~(PG_SZ-1);
BaseOffset(reg_addr) == Trunc32(PageFloor(reg_addr))

----------------------------------------------------------------------------
(* Register decoding, lines 228-232 *)

\* reg_value >> 8 on a word held as two halves
ShiftRight8(w) ==
    [hi |-> w.hi \div 256, lo |-> (w.hi % 256) * 256 + (w.lo \div 256)]

\* reg_value & mask for a mask 2^k - 1 with k <= 16
AndLowMask(w, mask) == w.lo % (mask + 1)

DecodeTemp_Div16(offset, reg_value, old) ==
    IF offset = HOTSPOT_REGISTER_OFFSET
        THEN AndLowMask(ShiftRight8(reg_value), 255)
    ELSE IF offset = VRAM_REGISTER_OFFSET
        THEN AndLowMask(reg_value, 4095) \div 16
    ELSE old

DecodeTemp(offset, reg_value, old) ==
    IF offset = HOTSPOT_REGISTER_OFFSET
        THEN AndLowMask(ShiftRight8(reg_value), 255)
    ELSE IF offset = VRAM_REGISTER_OFFSET
        THEN AndLowMask(reg_value, 4095) \div 32
    ELSE old

----------------------------------------------------------------------------
(* read_register_temp, lines 210-236 *)

NoAddr == [pg |-> 0, off |-> 0]
NoWord == [hi |-> 0, lo |-> 0]

RRIdle ==
    [pc |-> "idle", base |-> NoAddr, offset |-> 0, win |-> NoAddr,
     winlen |-> 0, rdoff |-> 0, reg_value |-> NoWord, temp |-> 0,
     ret |-> 0, read |-> FALSE, fd |-> -1]

\* the call itself: parameters are bound, nothing else has happened
RRCall(base, offset, temp) ==
    [RRIdle EXCEPT !.pc = "open", !.base = base, !.offset = offset,
                   !.temp = temp]

\* the values a caller can see after control falls off the end of a
\* non-void function (line 236 has no return statement)
FallOffValues == {0, 1}

\* the word physical memory holds at byte rdoff of the page win at time t
PhysMem(win, rdoff, t) ==
    [hi |-> (win.pg + t) % HalfWord,
     lo |-> ((win.pg * 7 + rdoff + 13 * t) * 37) % HalfWord]

\* the raw words the read of line 226 can yield: stand-alone every word a
\* register can hold, in the program the content of the mapped address
RawWords(stand_alone, win, rdoff, t) ==
    IF stand_alone
        THEN {[hi |-> h, lo |-> l] :
                 h \in {0, HalfWord - 1}, l \in 0..(HalfWord - 1)}
        ELSE {PhysMem(win, rdoff, t)}

CloseFd_Leak(n) == n

\* close(fd), lines 222 and 235: one open descriptor fewer
CloseFd(n) == n - 1

\* line 211-215: open(MEM_PATH, O_RDWR | O_SYNC)
RR_Open ==
    /\ rr.pc = "open"
    /\ \/ /\ rr' = [rr EXCEPT !.pc = "mmap", !.fd = 3]
          /\ fds' = fds + 1
       \/ /\ rr' = [rr EXCEPT !.pc = "returned", !.ret = -1]
          /\ fds' = fds
    /\ UNCHANGED <<harness, maps>>
    /\ UNCHANGED mainvars

\* line 217-224: address computation and mmap of one page
RR_Mmap ==
    /\ rr.pc = "mmap"
    /\ LET reg_addr == RegAddr(rr.base, rr.offset)
           base_offset == BaseOffset(reg_addr)
       IN  \/ /\ rr' = [rr EXCEPT !.pc = "read", !.win = base_offset,
                                  !.winlen = PG_SZ,
                                  !.rdoff = AddrSub(reg_addr, base_offset)]
              /\ maps' = maps + 1
              /\ fds' = fds
           \/ /\ rr' = [rr EXCEPT !.pc = "returned", !.ret = -1]
              /\ fds' = CloseFd(fds)
              /\ maps' = maps
    /\ UNCHANGED harness
    /\ UNCHANGED mainvars

\* line 226-236: read the word, decode, munmap, close, fall off the end
RR_Read ==
    /\ rr.pc = "read"
    /\ \E w \in RawWords(harness, rr.win, rr.rdoff, hist.cycles),
          r \in FallOffValues :
          rr' = [rr EXCEPT !.pc = "returned", !.reg_value = w,
                           !.temp = DecodeTemp(rr.offset, w, rr.temp),
                           !.ret = r, !.read = TRUE,
                           !.base = NoAddr, !.win = NoAddr, !.winlen = 0,
                           !.rdoff = 0]
    /\ maps' = maps - 1
    /\ fds' = CloseFd(fds)
    /\ UNCHANGED harness
    /\ UNCHANGED mainvars

----------------------------------------------------------------------------
(* Values of the program's types *)

FORMAT_TABLE == "FORMAT_TABLE"
FORMAT_JSON == "FORMAT_JSON"
MODE_CONTINUOUS == "MODE_CONTINUOUS"
MODE_ONCE == "MODE_ONCE"
NVML_SUCCESS == "NVML_SUCCESS"
NVML_ERROR == "NVML_ERROR"
NotExited == -1

NoPacc == [valid |-> FALSE, devices |-> <<>>]

\* Context ctx = {0};  (line 379)
Ctx0 ==
    [result |-> NVML_SUCCESS, device_count |-> 0, initialized |-> 0,
     pacc |-> NoPacc, output_buffer |-> <<>>, buffer_pos |-> 0,
     output_mode |-> MODE_CONTINUOUS, output_format |-> FORMAT_TABLE]

NoInfo == [pciDeviceId |-> 0, domain |-> 0, bus |-> 0, device |-> 0]

\* GpuDevice gpu = {0};  (lines 279, 297)
Gpu0 ==
    [device |-> 0, pci_info |-> NoInfo, gpu_temp |-> 0, junction_temp |-> 0,
     vram_temp |-> 0]

Gt0 == [index |-> 0, used |-> 0, reads |-> 0, ret |-> 0, base |-> NoAddr]
Loc0 == [i |-> 0, valid_readings |-> 0, first |-> 1, now |-> 0, result |-> 0]
\* what has been observed of the run: whether main was started with an
\* argument it does not know and with --help, and which of the two came first,
\* the cycles started, the calls of handle_input, the calls of get_gpu_temps
\* per index in the current cycle and the values they obtained, whether a
\* byte was read from standard input, and the waits since the last cycle
NoVals == <<0, 0, 0>>
Hist0 ==
    [unknown |-> FALSE, help |-> FALSE, first |-> "none", cycles |-> 0, waits |-> 0,
     sampled |-> [d \in 0..(MaxCount - 1) |-> 0],
     vals |-> [d \in 0..(MaxCount - 1) |-> NoVals],
     key |-> FALSE, gap |-> 0, gap_s |-> 0]

----------------------------------------------------------------------------
(* The environment: arguments, NVML, the PCI bus, the clock *)

Args == {"--json", "--once", "--help", "--bogus"}
ArgLists == UNION {[1..n -> Args] : n \in 0..MaxArgs}

KnownArgs == {"--json", "--once", "--help"}

RECURSIVE FirstStop(_)
\* the first argument that is neither --json nor --once: "--help",
\* "unknown", or "none" when there is no such argument
FirstStop(args) ==
    IF args = << >> THEN "none"
    ELSE IF Head(args) \in {"--json", "--once"} THEN FirstStop(Tail(args))
    ELSE IF Head(args) = "--help" THEN "--help"
    ELSE "unknown"

\* vendor 0x10DE, devices 0x2204 and 0x2684
VendorIds == <<4318, 4098>>
DeviceIds == <<8708, 9860>>

\* nvmlDeviceGetPciInfo for the device with the given index
NvmlPciInfo(index) ==
    [pciDeviceId |-> DeviceIds[1] * HalfWord + VendorIds[1], domain |-> 0,
     bus |-> index + 1, device |-> 0]

\* nvmlDeviceGetTemperature(device, NVML_TEMPERATURE_GPU, ..)
\* a reading that follows the device and the cycle and, on the smaller
\* machines, a hot one
CoreTemps(index) ==
    {40 + 4 * index + hist.cycles} \cup
    (IF ctx.device_count <= MaxDevices THEN {85} ELSE {})

\* time(NULL)
Times == {1700000000}

PciDev(v, d, dom, bus, slot, base) ==
    [vendor_id |-> v, device_id |-> d, domain |-> dom, bus |-> bus,
     dev |-> slot, base_addr |-> base]

\* the PCI record of the GPU with the given index, region 0 at page pg
GpuPci(index, pg) ==
    PciDev(VendorIds[1], DeviceIds[1], 0, index + 1, 0, [pg |-> pg, off |-> 0])

\* what pci_scan_bus can find
PciLists ==
    { [i \in 1..MaxCount |-> GpuPci(i - 1, 983040 + 4096 * (i - 1))],
      <<[GpuPci(0, 4096) EXCEPT !.vendor_id = VendorIds[2]],
        [GpuPci(0, 8192) EXCEPT !.device_id = DeviceIds[2]],
        [GpuPci(0, 12288) EXCEPT !.domain = 1],
        [GpuPci(0, 16384) EXCEPT !.bus = 9],
        [GpuPci(0, 20480) EXCEPT !.dev = 1]>>,
      <<[GpuPci(0, 4096) EXCEPT !.domain = 1],
        GpuPci(0, PagesPer4G + 983040), GpuPci(0, 983040),
        GpuPci(1, PagesPer4G - 1)>>,
      << >> }

----------------------------------------------------------------------------
(* Output items.  An item is a piece of text produced by one format call;  *)
(* len is its length in bytes, cyc the sampling cycle that produced it.    *)

Item(k, idx, v, len) ==
    [k |-> k, cyc |-> hist.cycles, idx |-> idx, v |-> v, len |-> len,
     cut |-> FALSE]

\* text that belongs to no sampling cycle
Ctl(k, v, len) == [Item(k, 0, v, len) EXCEPT !.cyc = 0]

Digits(n) == IF n < 10 THEN 1 ELSE IF n < 100 THEN 2 ELSE 3

\* "\n%s" with "* " or "  "
MarkerItem(mark) == Item("marker", 0, <<mark>>, 3)
\* "%s  CORE  %s  JUNC  %s  VRAM  %s\n" with four 3-byte separators
HeaderItem == Item("header", 0, << >>, 37)
\* "\033[%dA"
CursorUpItem(n) == Item("cursor_up", 0, <<n>>, 3 + Digits(n))
\* "\033[%dB" and "\n"
CursorDownItem(n) == Ctl("cursor_down", <<n>>, 3 + Digits(n))
NewlineItem == Ctl("newline", << >>, 1)
CursorHideItem == Ctl("cursor_hide", << >>, 6)
CursorShowItem == Ctl("cursor_show", << >>, 6)

get_temp_color_Exclusive(temp, warn, danger) ==
    IF temp > danger THEN "COLOR_RED"
    ELSE IF temp > warn THEN "COLOR_YELLOW"
    ELSE "COLOR_GREEN"

\* get_temp_color, lines 127-131
get_temp_color(temp, warn, danger) ==
    IF temp >= danger THEN "COLOR_RED"
    ELSE IF temp >= warn THEN "COLOR_YELLOW"
    ELSE "COLOR_GREEN"

GPU_TEMP_WARN == 70
GPU_TEMP_DANGER == 85
JUNCTION_TEMP_WARN == 80
JUNCTION_TEMP_DANGER == 95
VRAM_TEMP_WARN == 80
VRAM_TEMP_DANGER == 95

\* the line print_gpu_info formats, lines 134-141
RowItem(index, g) ==
    Item("row", index,
         <<get_temp_color(g.gpu_temp, GPU_TEMP_WARN, GPU_TEMP_DANGER),
           g.gpu_temp,
           get_temp_color(g.junction_temp, JUNCTION_TEMP_WARN,
                          JUNCTION_TEMP_DANGER),
           g.junction_temp,
           get_temp_color(g.vram_temp, VRAM_TEMP_WARN, VRAM_TEMP_DANGER),
           g.vram_temp>>,
         Digits(index) + 68)

JsonHeadItem(now) == Item("json_head", 0, <<now>>, 30)
JsonCommaItem == Item("json_comma", 0, << >>, 1)
JsonObjItem_Swapped(index, g) ==
    Item("json_obj", index, <<g.gpu_temp, g.vram_temp, g.junction_temp>>, 40)

\* "{\"index\":%u,\"core\":%u,\"junction\":%u,\"vram\":%u}"
JsonObjItem(index, g) ==
    Item("json_obj", index, <<g.gpu_temp, g.junction_temp, g.vram_temp>>, 40)
JsonTailItem == Item("json_tail", 0, << >>, 3)

----------------------------------------------------------------------------
(* buffer_append, lines 118-125 *)

RECURSIVE Committed(_, _)
\* the items of the buffer that end at or before byte pos
Committed(buf, pos) ==
    IF buf = << >> \/ Head(buf).len > pos \/ Head(buf).cut THEN << >>
    ELSE <<Head(buf)>> \o Committed(Tail(buf), pos - Head(buf).len)

buffer_append_Unchecked(c, item) ==
    [c EXCEPT !.output_buffer =
                  Append(Committed(c.output_buffer, c.buffer_pos), item),
              !.buffer_pos = c.buffer_pos + item.len]

buffer_append(c, item) ==
    LET remaining == BUFFER_SIZE - c.buffer_pos
        written == item.len
        kept == Committed(c.output_buffer, c.buffer_pos)
    IN  IF written > 0 /\ written < remaining
            THEN [c EXCEPT !.output_buffer = Append(kept, item),
                           !.buffer_pos = c.buffer_pos + written]
            ELSE [c EXCEPT !.output_buffer =
                      Append(kept, [item EXCEPT !.len = remaining - 1,
                                                !.cut = TRUE])]

\* print_gpu_info, lines 133-142
print_gpu_info(c, index, g) == buffer_append(c, RowItem(index, g))

----------------------------------------------------------------------------
(* cleanup_context, lines 78-90 *)

cleanup_context(c) == [c EXCEPT !.initialized = 0, !.pacc = NoPacc]

CleanupEvents_Unguarded(c) ==
    <<"nvmlShutdown">> \o
    (IF c.pacc.valid THEN <<"pci_cleanup">> ELSE << >>)

CleanupEvents(c) ==
    (IF c.initialized # 0 THEN <<"nvmlShutdown">> ELSE << >>) \o
    (IF c.pacc.valid THEN <<"pci_cleanup">> ELSE << >>)

\* return from main with the given status: exit() runs next
ReturnFromMain(status) ==
    /\ exit_code' = status
    /\ pc' = "atexit"

\* the error paths of main, lines 399-402 and 408-411
FailInMain ==
    /\ ctx' = cleanup_context(ctx)
    /\ log' = log \o CleanupEvents(ctx)
    /\ ReturnFromMain(1)

----------------------------------------------------------------------------
(* main: argument parsing, lines 383-396 *)

UsageStatus_Zero(a) == 0

\* the value main returns after print_usage, lines 390-395
UsageStatus(a) == IF a = "--help" THEN 0 ELSE 1

\* one iteration of the for loop of line 383; print_usage and the
\* "Unknown argument" message go to standard error
ParseArg ==
    /\ pc = "args"
    /\ IF argv = << >>
          THEN /\ pc' = "setup"
               /\ UNCHANGED <<argv, ctx, exit_code, log>>
          ELSE LET a == Head(argv)
               IN  /\ argv' = Tail(argv)
                   /\ IF a = "--json"
                         THEN /\ ctx' = [ctx EXCEPT !.output_format = FORMAT_JSON]
                              /\ UNCHANGED <<pc, exit_code, log>>
                      ELSE IF a = "--once"
                         THEN /\ ctx' = [ctx EXCEPT !.output_mode = MODE_ONCE]
                              /\ UNCHANGED <<pc, exit_code, log>>
                      ELSE IF a = "--help"
                         THEN /\ log' = Append(log, "print_usage")
                              /\ ReturnFromMain(UsageStatus(a))
                              /\ UNCHANGED ctx
                      ELSE /\ log' = log \o <<"unknown_argument", "print_usage">>
                           /\ ReturnFromMain(UsageStatus(a))
                           /\ UNCHANGED ctx
    /\ UNCHANGED <<running, handlers, term, atexit_list, stdout_buf,
                   stdout_out, loc, gpu, gt, refresh_counter, hist>>
    /\ UNCHANGED regvars

(* main, lines 398-406, with setup_terminal, lines 105-116 *)
SetupTerminal ==
    /\ pc = "setup"
    /\ IF ctx.output_format = FORMAT_TABLE
          THEN \/ \* tcgetattr fails
                  /\ FailInMain
                  /\ UNCHANGED <<term, atexit_list, stdout_out>>
               \/ \* tcgetattr succeeds, tcsetattr fails
                  /\ atexit_list' = Append(atexit_list, "reset_terminal")
                  /\ ctx' = cleanup_context(ctx)
                  /\ log' = log \o <<"tcgetattr">> \o CleanupEvents(ctx)
                  /\ ReturnFromMain(1)
                  /\ UNCHANGED <<term, stdout_out>>
               \/ \* both succeed: raw mode, cursor hidden
                  /\ atexit_list' = atexit_list \o
                                      <<"reset_terminal", "restore_cursor">>
                  /\ term' = [mode |-> "raw", cursor |-> "hidden"]
                  /\ stdout_out' = stdout_out \o stdout_buf \o <<CursorHideItem>>
                  /\ log' = log \o <<"tcgetattr", "tcsetattr_raw", "cursor_hide">>
                  /\ pc' = "init_root"
                  /\ UNCHANGED <<ctx, exit_code>>
          ELSE /\ pc' = "init_root"
               /\ UNCHANGED <<ctx, exit_code, term, atexit_list, stdout_out, log>>
    /\ UNCHANGED <<argv, running, handlers, stdout_buf, loc, gpu, gt,
                   refresh_counter, hist>>
    /\ UNCHANGED regvars

----------------------------------------------------------------------------
(* init_monitoring, lines 312-324 *)

\* check_root_privileges, lines 70-76
CheckRoot ==
    /\ pc = "init_root"
    /\ \/ /\ pc' = "init_pci"
          /\ UNCHANGED <<ctx, log, exit_code>>
       \/ FailInMain
    /\ UNCHANGED <<argv, running, handlers, term, atexit_list, stdout_buf,
                   stdout_out, loc, gpu, gt, refresh_counter, hist>>
    /\ UNCHANGED regvars

\* init_pci, lines 144-153
InitPci ==
    /\ pc = "init_pci"
    /\ \/ \E l \in PciLists :
             /\ ctx' = [ctx EXCEPT !.pacc = [valid |-> TRUE, devices |-> l]]
             /\ log' = Append(log, "pci_alloc")
             /\ pc' = "init_nvml"
             /\ UNCHANGED exit_code
       \/ FailInMain
    /\ UNCHANGED <<argv, running, handlers, term, atexit_list, stdout_buf,
                   stdout_out, loc, gpu, gt, refresh_counter, hist>>
    /\ UNCHANGED regvars

\* init_nvml, lines 155-164
InitNvml ==
    /\ pc = "init_nvml"
    /\ \/ /\ ctx' = [ctx EXCEPT !.result = NVML_SUCCESS, !.initialized = 1]
          /\ log' = Append(log, "nvmlInit")
          /\ pc' = "init_count"
          /\ UNCHANGED exit_code
       \/ LET c == [ctx EXCEPT !.result = NVML_ERROR]
          IN  /\ ctx' = cleanup_context(c)
              /\ log' = log \o CleanupEvents(c)
              /\ ReturnFromMain(1)
    /\ UNCHANGED <<argv, running, handlers, term, atexit_list, stdout_buf,
                   stdout_out, loc, gpu, gt, refresh_counter, hist>>
    /\ UNCHANGED regvars

FirstPc_Loop(c) == "loop_test"

\* the dispatch of main, lines 413-422
FirstPc(c) ==
    IF c.output_mode = MODE_CONTINUOUS THEN "loop_test"
    ELSE IF c.output_format = FORMAT_JSON THEN "json_begin"
    ELSE "table_begin"

\* get_device_count, lines 166-178, then signal(), lines 319-321
GetDeviceCount ==
    /\ pc = "init_count"
    /\ \/ \E n \in DeviceCounts :
             /\ ctx' = [ctx EXCEPT !.result = NVML_SUCCESS, !.device_count = n]
             /\ handlers' = TRUE
             /\ pc' = FirstPc(ctx)
             /\ hist' = IF ctx.output_mode = MODE_ONCE
                           THEN [hist EXCEPT !.cycles = 1]
                           ELSE hist
             /\ UNCHANGED <<log, exit_code>>
       \/ \E r \in {NVML_SUCCESS, NVML_ERROR} :
             \* the call fails, or it reports no device
             LET c == [ctx EXCEPT !.result = r, !.device_count = 0]
             IN  /\ ctx' = cleanup_context(c)
                 /\ log' = log \o CleanupEvents(c)
                 /\ ReturnFromMain(1)
                 /\ UNCHANGED <<handlers, hist>>
    /\ UNCHANGED <<argv, running, term, atexit_list, stdout_buf,
                   stdout_out, loc, gpu, gt, refresh_counter>>
    /\ UNCHANGED regvars

----------------------------------------------------------------------------
(* Termination: cleanup in main, then exit() *)

\* main, lines 424-425
Cleanup ==
    /\ pc = "cleanup"
    /\ ctx' = cleanup_context(ctx)
    /\ log' = log \o CleanupEvents(ctx)
    /\ ReturnFromMain(IF loc.result = 0 THEN 0 ELSE 1)
    /\ UNCHANGED <<argv, running, handlers, term, atexit_list, stdout_buf,
                   stdout_out, loc, gpu, gt, refresh_counter, hist>>
    /\ UNCHANGED regvars

NextAtExit_Fifo(list) == 1

\* exit() calls the registered functions in the reverse order of registration
NextAtExit(list) == Len(list)

\* exit(): the functions registered with atexit run in reverse order;
\* restore_cursor (lines 96-99), reset_terminal (lines 101-103)
AtExitHandler ==
    /\ pc = "atexit"
    /\ atexit_list # << >>
    /\ LET n == NextAtExit(atexit_list)
           f == atexit_list[n]
       IN  /\ atexit_list' = SubSeq(atexit_list, 1, n - 1) \o
                               SubSeq(atexit_list, n + 1, Len(atexit_list))
           /\ log' = Append(log, f)
           /\ IF f = "restore_cursor"
                 THEN /\ stdout_out' = stdout_out \o stdout_buf \o
                                         <<CursorShowItem>>
                      /\ stdout_buf' = << >>
                      /\ term' = [term EXCEPT !.cursor = "shown"]
                 ELSE /\ term' = [term EXCEPT !.mode = "orig"]
                      /\ UNCHANGED <<stdout_buf, stdout_out>>
    /\ UNCHANGED <<argv, pc, ctx, running, handlers, exit_code, loc, gpu, gt,
                   refresh_counter, hist>>
    /\ UNCHANGED regvars

\* exit(): stdio flushes stdout and the process ends
ExitFlush ==
    /\ pc = "atexit"
    /\ atexit_list = << >>
    /\ stdout_out' = stdout_out \o stdout_buf
    /\ stdout_buf' = << >>
    /\ pc' = "exited"
    /\ UNCHANGED <<argv, ctx, running, handlers, term, atexit_list, exit_code,
                   log, loc, gpu, gt, refresh_counter, hist>>
    /\ UNCHANGED regvars

\* signal_handler, lines 92-94; before signal() the default action applies
Signal ==
    /\ pc \notin {"exited", "killed", "none"}
    /\ IF handlers
          THEN /\ running = 1
               /\ running' = 0
               /\ UNCHANGED pc
          ELSE /\ pc' = "killed"
               /\ UNCHANGED running
    /\ UNCHANGED <<argv, ctx, handlers, term, atexit_list, stdout_buf,
                   stdout_out, exit_code, log, loc, gpu, gt, refresh_counter,
                   hist>>
    /\ UNCHANGED regvars

----------------------------------------------------------------------------
(* get_gpu_temps, lines 238-266 *)

\* dev->device_id << 16 | dev->vendor_id  (both are 16-bit fields)
CombinedId(dev) == dev.device_id * HalfWord + dev.vendor_id

DevMatches_NoBus(dev, info) ==
    ~ ( \/ CombinedId(dev) # info.pciDeviceId
        \/ dev.domain # info.domain
        \/ dev.dev # info.device )

\* the negation of the `continue` condition of lines 247-250
DevMatches(dev, info) ==
    ~ ( \/ CombinedId(dev) # info.pciDeviceId
        \/ dev.domain # info.domain
        \/ dev.bus # info.bus
        \/ dev.dev # info.device )

RECURSIVE FirstMatch(_, _, _)
\* the for loop of line 244 from list position k: the position of the
\* record the body is entered with, 0 when the list is exhausted
FirstMatch(devices, info, k) ==
    IF k > Len(devices) THEN 0
    ELSE IF DevMatches(devices[k], info) THEN k
    ELSE FirstMatch(devices, info, k + 1)

\* lines 239-256: handle, core temperature, PCI identity, correlation and
\* the call of read_register_temp for the junction register
GT_Begin ==
    /\ pc = "gt_begin"
    /\ \/ \* nvmlDeviceGetHandleByIndex fails
          /\ hist' = [hist EXCEPT !.sampled[gt.index] = @ + 1]
          /\ ctx' = [ctx EXCEPT !.result = NVML_ERROR]
          /\ gt' = [gt EXCEPT !.ret = -1]
          /\ pc' = "sampled"
          /\ UNCHANGED <<gpu, rr>>
       \/ \* nvmlDeviceGetTemperature fails
          /\ hist' = [hist EXCEPT !.sampled[gt.index] = @ + 1]
          /\ ctx' = [ctx EXCEPT !.result = NVML_SUCCESS]
          /\ gpu' = [gpu EXCEPT !.device = gt.index + 1]
          /\ gt' = [gt EXCEPT !.ret = -1]
          /\ pc' = "sampled"
          /\ UNCHANGED rr
       \/ \* nvmlDeviceGetPciInfo fails
          \E t \in CoreTemps(gt.index) :
             /\ hist' = [hist EXCEPT !.sampled[gt.index] = @ + 1,
                                     !.vals[gt.index] = <<t, 0, 0>>]
             /\ ctx' = [ctx EXCEPT !.result = NVML_ERROR]
             /\ gpu' = [gpu EXCEPT !.device = gt.index + 1, !.gpu_temp = t]
             /\ gt' = [gt EXCEPT !.ret = -1]
             /\ pc' = "sampled"
             /\ UNCHANGED rr
       \/ \E t \in CoreTemps(gt.index) :
             LET info == NvmlPciInfo(gt.index)
                 k == FirstMatch(ctx.pacc.devices, info, 1)
             IN  /\ hist' = [hist EXCEPT !.sampled[gt.index] = @ + 1,
                                         !.vals[gt.index] = <<t, 0, 0>>]
                 /\ ctx' = [ctx EXCEPT !.result = NVML_SUCCESS]
                 /\ gpu' = [gpu EXCEPT !.device = gt.index + 1,
                                       !.gpu_temp = t, !.pci_info = info]
                 /\ IF k = 0
                       THEN /\ gt' = [gt EXCEPT !.ret = -1]
                            /\ pc' = "sampled"
                            /\ UNCHANGED rr
                       ELSE /\ gt' = [gt EXCEPT !.used = k, !.reads = 1,
                                        !.base = ctx.pacc.devices[k].base_addr]
                            /\ rr' = RRCall(ctx.pacc.devices[k].base_addr,
                                            HOTSPOT_REGISTER_OFFSET,
                                            gpu.junction_temp)
                            /\ pc' = "gt_junction"
    /\ UNCHANGED <<argv, running, handlers, term, atexit_list, stdout_buf,
                   stdout_out, exit_code, log, loc, refresh_counter>>
    /\ UNCHANGED <<harness, fds, maps>>

\* lines 254-259: the junction read has returned
GT_Junction ==
    /\ pc = "gt_junction"
    /\ rr.pc = "returned"
    /\ gpu' = [gpu EXCEPT !.junction_temp = rr.temp]
    /\ hist' = [hist EXCEPT !.vals[gt.index][2] = rr.temp]
    /\ IF rr.ret # 0
          THEN /\ gt' = [gt EXCEPT !.ret = -1]
               /\ rr' = RRIdle
               /\ pc' = "sampled"
          ELSE /\ gt' = [gt EXCEPT !.reads = 2]
               /\ rr' = RRCall(gt.base, VRAM_REGISTER_OFFSET, gpu.vram_temp)
               /\ pc' = "gt_vram"
    /\ UNCHANGED <<argv, ctx, running, handlers, term, atexit_list, stdout_buf,
                   stdout_out, exit_code, log, loc, refresh_counter>>
    /\ UNCHANGED <<harness, fds, maps>>

\* lines 258-262: the VRAM read has returned
GT_Vram ==
    /\ pc = "gt_vram"
    /\ rr.pc = "returned"
    /\ gpu' = [gpu EXCEPT !.vram_temp = rr.temp]
    /\ hist' = [hist EXCEPT !.vals[gt.index][3] = rr.temp]
    /\ gt' = [gt EXCEPT !.ret = IF rr.ret # 0 THEN -1 ELSE 0]
    /\ rr' = RRIdle
    /\ pc' = "sampled"
    /\ UNCHANGED <<argv, ctx, running, handlers, term, atexit_list, stdout_buf,
                   stdout_out, exit_code, log, loc, refresh_counter>>
    /\ UNCHANGED <<harness, fds, maps>>

----------------------------------------------------------------------------
(* The monitor functions and the two loops *)

MonitorReturns_Retry(res) ==
    IF ctx.output_mode = MODE_ONCE
       THEN /\ loc' = [loc EXCEPT !.result = res]
            /\ pc' = "cleanup"
    ELSE /\ pc' = "wait"
         /\ UNCHANGED loc

\* what the caller of a monitor function does with its result:
\* lines 341-342, 353-354 (continuous) and 417, 421 (once)
MonitorReturns(res) ==
    IF ctx.output_mode = MODE_ONCE
       THEN /\ loc' = [loc EXCEPT !.result = res]
            /\ pc' = "cleanup"
    ELSE IF res # 0
       THEN /\ loc' = [loc EXCEPT !.result = -1]
            /\ pc' = "cleanup"
    ELSE /\ pc' = "wait"
         /\ UNCHANGED loc

LoopCondition_Always(r) == TRUE

\* while (running)
LoopCondition(r) == r # 0

\* the loop conditions of lines 340 and 352
LoopTest ==
    /\ pc = "loop_test"
    /\ IF LoopCondition(running)
          THEN /\ hist.cycles < MaxCycles
               /\ hist' = [hist EXCEPT !.cycles = @ + 1,
                              !.sampled = [d \in DOMAIN hist.sampled |-> 0],
                              !.vals = [d \in DOMAIN hist.vals |-> NoVals]]
               /\ pc' = IF ctx.output_format = FORMAT_JSON
                           THEN "json_begin" ELSE "table_begin"
          ELSE /\ pc' = "loop_exit"
               /\ UNCHANGED hist
    /\ UNCHANGED <<argv, ctx, running, handlers, term, atexit_list, stdout_buf,
                   stdout_out, exit_code, log, loc, gpu, gt, refresh_counter>>
    /\ UNCHANGED regvars

ToggleCounter_Stuck(rc) == 1

\* refresh_counter = refresh_counter == 0 ? 1 : 0, line 273
ToggleCounter(rc) == IF rc = 0 THEN 1 ELSE 0

\* monitor_temperatures_table, lines 269-279
TableBegin ==
    /\ pc = "table_begin"
    /\ LET rc == ToggleCounter(refresh_counter)
           c0 == [ctx EXCEPT !.buffer_pos = 0]
           c1 == buffer_append(c0, MarkerItem(IF rc = 0 THEN "* " ELSE "  "))
           c2 == buffer_append(c1, HeaderItem)
       IN  /\ refresh_counter' = rc
           /\ ctx' = c2
    /\ loc' = [loc EXCEPT !.i = 0, !.valid_readings = 0]
    /\ gpu' = Gpu0
    /\ gt' = Gt0
    /\ pc' = IF 0 < ctx.device_count THEN "gt_begin" ELSE "table_end"
    /\ UNCHANGED <<argv, running, handlers, term, atexit_list, stdout_buf,
                   stdout_out, exit_code, log, hist>>
    /\ UNCHANGED regvars

\* lines 280 and 298: get_gpu_temps failed, the monitor function returns -1
SampleFailed ==
    /\ pc = "sampled"
    /\ gt.ret # 0
    /\ MonitorReturns(-1)
    /\ UNCHANGED <<argv, ctx, running, handlers, term, atexit_list, stdout_buf,
                   stdout_out, exit_code, log, gpu, gt, refresh_counter, hist>>
    /\ UNCHANGED regvars

\* lines 281-283 and the loop header of line 278
TableRow ==
    /\ pc = "sampled"
    /\ gt.ret = 0
    /\ ctx.output_format = FORMAT_TABLE
    /\ ctx' = print_gpu_info(ctx, loc.i, gpu)
    /\ loc' = [loc EXCEPT !.i = @ + 1, !.valid_readings = @ + 1]
    /\ IF loc.i + 1 < ctx.device_count
          THEN /\ gpu' = Gpu0
               /\ gt' = [Gt0 EXCEPT !.index = loc.i + 1]
               /\ pc' = "gt_begin"
          ELSE /\ pc' = "table_end"
               /\ UNCHANGED <<gpu, gt>>
    /\ UNCHANGED <<argv, running, handlers, term, atexit_list, stdout_buf,
                   stdout_out, exit_code, log, refresh_counter, hist>>
    /\ UNCHANGED regvars

\* lines 285-288
TableEnd ==
    /\ pc = "table_end"
    /\ LET c == buffer_append(ctx, CursorUpItem(loc.valid_readings + 2))
       IN  /\ ctx' = c
           /\ stdout_out' = stdout_out \o stdout_buf \o c.output_buffer
           /\ stdout_buf' = << >>
    /\ MonitorReturns(0)
    /\ UNCHANGED <<argv, running, handlers, term, atexit_list, exit_code, log,
                   gpu, gt, refresh_counter, hist>>
    /\ UNCHANGED regvars

\* monitor_temperatures_json, lines 292-297
JsonBegin ==
    /\ pc = "json_begin"
    /\ \E now \in Times :
          /\ loc' = [loc EXCEPT !.i = 0, !.first = 1, !.now = now]
          /\ stdout_buf' = Append(stdout_buf, JsonHeadItem(now))
    /\ gpu' = Gpu0
    /\ gt' = Gt0
    /\ pc' = IF 0 < ctx.device_count THEN "gt_begin" ELSE "json_end"
    /\ UNCHANGED <<argv, ctx, running, handlers, term, atexit_list,
                   stdout_out, exit_code, log, refresh_counter, hist>>
    /\ UNCHANGED regvars

\* lines 300-305 and the loop header of line 296
JsonRow ==
    /\ pc = "sampled"
    /\ gt.ret = 0
    /\ ctx.output_format = FORMAT_JSON
    /\ stdout_buf' = stdout_buf \o
                       (IF loc.first = 0 THEN <<JsonCommaItem>> ELSE << >>) \o
                       <<JsonObjItem(loc.i, gpu)>>
    /\ loc' = [loc EXCEPT !.i = @ + 1, !.first = 0]
    /\ IF loc.i + 1 < ctx.device_count
          THEN /\ gpu' = Gpu0
               /\ gt' = [Gt0 EXCEPT !.index = loc.i + 1]
               /\ pc' = "gt_begin"
          ELSE /\ pc' = "json_end"
               /\ UNCHANGED <<gpu, gt>>
    /\ UNCHANGED <<argv, ctx, running, handlers, term, atexit_list,
                   stdout_out, exit_code, log, refresh_counter, hist>>
    /\ UNCHANGED regvars

\* lines 307-309
JsonEnd ==
    /\ pc = "json_end"
    /\ stdout_out' = stdout_out \o stdout_buf \o <<JsonTailItem>>
    /\ stdout_buf' = << >>
    /\ MonitorReturns(0)
    /\ UNCHANGED <<argv, ctx, running, handlers, term, atexit_list, exit_code,
                   log, gpu, gt, refresh_counter, hist>>
    /\ UNCHANGED regvars

HandleInput_KeyIgnored ==
    /\ pc = "wait"
    /\ \E key \in BOOLEAN :
          hist' = [hist EXCEPT !.waits = @ + 1, !.key = key, !.gap = 1,
                              !.gap_s = REFRESH_DURATION]
    /\ pc' = IF ctx.output_format = FORMAT_JSON THEN "sleep" ELSE "loop_test"
    /\ UNCHANGED <<argv, ctx, running, handlers, term, atexit_list, stdout_buf,
                   stdout_out, exit_code, log, loc, gpu, gt, refresh_counter>>
    /\ UNCHANGED regvars

\* handle_input, lines 326-337, and what the loops do with its result
HandleInput ==
    /\ pc = "wait"
    /\ \/ \* a byte was read from standard input: break
          /\ hist' = [hist EXCEPT !.waits = @ + 1, !.key = TRUE,
                                  !.gap = 1, !.gap_s = 0]
          /\ pc' = "loop_exit"
       \/ \* the interval elapsed, select was interrupted or read got nothing
          /\ hist' = [hist EXCEPT !.waits = @ + 1, !.gap = 1,
                                  !.gap_s = REFRESH_DURATION]
          /\ pc' = IF ctx.output_format = FORMAT_JSON
                      THEN "sleep" ELSE "loop_test"
    /\ UNCHANGED <<argv, ctx, running, handlers, term, atexit_list, stdout_buf,
                   stdout_out, exit_code, log, loc, gpu, gt, refresh_counter>>
    /\ UNCHANGED regvars

\* sleep(REFRESH_DURATION), line 356
Sleep ==
    /\ pc = "sleep"
    /\ hist' = [hist EXCEPT !.gap = @ + 1, !.gap_s = @ + REFRESH_DURATION]
    /\ pc' = "loop_test"
    /\ UNCHANGED <<argv, ctx, running, handlers, term, atexit_list, stdout_buf,
                   stdout_out, exit_code, log, loc, gpu, gt, refresh_counter>>
    /\ UNCHANGED regvars

\* lines 345-348 and line 358: the loop has ended, the function returns 0
LoopExit ==
    /\ pc = "loop_exit"
    /\ IF ctx.output_format = FORMAT_TABLE
          THEN /\ stdout_out' = stdout_out \o stdout_buf \o
                     <<CursorDownItem(ctx.device_count + 2), NewlineItem>>
               /\ stdout_buf' = << >>
          ELSE UNCHANGED <<stdout_buf, stdout_out>>
    /\ loc' = [loc EXCEPT !.result = 0]
    /\ pc' = "cleanup"
    /\ UNCHANGED <<argv, ctx, running, handlers, term, atexit_list, exit_code,
                   log, gpu, gt, refresh_counter, hist>>
    /\ UNCHANGED regvars

----------------------------------------------------------------------------
(* The program *)

Init ==
    /\ argv \in ArgLists
    /\ hist = [Hist0 EXCEPT
                  !.unknown = (\E i \in DOMAIN argv : argv[i] \notin KnownArgs),
                  !.help = (\E i \in DOMAIN argv : argv[i] = "--help"),
                  !.first = FirstStop(argv)]
    /\ pc = "args"
    /\ ctx = Ctx0
    /\ running = 1
    /\ handlers = FALSE
    /\ term = [mode |-> "orig", cursor |-> "shown"]
    /\ atexit_list = << >>
    /\ stdout_buf = << >>
    /\ stdout_out = << >>
    /\ exit_code = NotExited
    /\ log = << >>
    /\ loc = Loc0
    /\ gpu = Gpu0
    /\ gt = Gt0
    /\ refresh_counter = 0
    /\ harness = FALSE
    /\ rr = RRIdle
    /\ fds = 0
    /\ maps = 0

Next ==
    \/ ParseArg
    \/ SetupTerminal
    \/ CheckRoot
    \/ InitPci
    \/ InitNvml
    \/ GetDeviceCount
    \/ LoopTest
    \/ TableBegin
    \/ JsonBegin
    \/ GT_Begin
    \/ RR_Open
    \/ RR_Mmap
    \/ RR_Read
    \/ GT_Junction
    \/ GT_Vram
    \/ SampleFailed
    \/ TableRow
    \/ JsonRow
    \/ TableEnd
    \/ JsonEnd
    \/ HandleInput
    \/ Sleep
    \/ LoopExit
    \/ Cleanup
    \/ AtExitHandler
    \/ ExitFlush
    \/ Signal

Spec == Init /\ [][Next]_vars

\* the steps of the program itself: everything but the arrival of a signal
Progress ==
    \/ ParseArg \/ SetupTerminal \/ CheckRoot \/ InitPci \/ InitNvml
    \/ GetDeviceCount \/ LoopTest \/ TableBegin \/ JsonBegin \/ GT_Begin
    \/ RR_Open \/ RR_Mmap \/ RR_Read \/ GT_Junction \/ GT_Vram
    \/ SampleFailed \/ TableRow \/ JsonRow \/ TableEnd \/ JsonEnd
    \/ HandleInput \/ Sleep \/ LoopExit \/ Cleanup \/ AtExitHandler
    \/ ExitFlush

\* one thread, every call returns and the wait is bounded: the program
\* keeps taking its next step
FairSpec == Spec /\ WF_vars(Progress)

----------------------------------------------------------------------------
(* Stand-alone driver of the register reader *)

\* region-0 base addresses: below 4G, in the last page below 4G, at 4G and
\* above it; the page offsets put the junction register in the last word
\* of a page (2960) and in the first word of the next page (2964)
BaseOffs == {0, 2960, 2964}
BasePages == {983040, PagesPer4G - 1, PagesPer4G, PagesPer4G + 983040}
BaseAddrs ==
    {[pg |-> p, off |-> o] : p \in BasePages, o \in BaseOffs}

RegOffsets == {HOTSPOT_REGISTER_OFFSET, VRAM_REGISTER_OFFSET}

HarnessCall ==
    /\ harness
    /\ rr.pc = "idle"
    /\ \E b \in BaseAddrs, o \in RegOffsets : rr' = RRCall(b, o, 0)
    /\ UNCHANGED <<harness, fds, maps>>
    /\ UNCHANGED mainvars

HarnessReturn ==
    /\ harness
    /\ rr.pc = "returned"
    /\ rr' = RRIdle
    /\ UNCHANGED <<harness, fds, maps>>
    /\ UNCHANGED mainvars

InitReg ==
    /\ argv = << >>
    /\ pc = "none"
    /\ ctx = Ctx0
    /\ running = 1
    /\ handlers = FALSE
    /\ term = [mode |-> "orig", cursor |-> "shown"]
    /\ atexit_list = << >>
    /\ stdout_buf = << >>
    /\ stdout_out = << >>
    /\ exit_code = NotExited
    /\ log = << >>
    /\ loc = Loc0
    /\ gpu = Gpu0
    /\ gt = Gt0
    /\ refresh_counter = 0
    /\ hist = Hist0
    /\ harness = TRUE
    /\ rr = RRIdle
    /\ fds = 0
    /\ maps = 0

NextReg ==
    \/ HarnessCall
    \/ HarnessReturn
    \/ RR_Open
    \/ RR_Mmap
    \/ RR_Read

SpecReg == InitReg /\ [][NextReg]_vars

----------------------------------------------------------------------------
(* Stand-alone driver of print_gpu_info *)

\* one temperature takes every value up to MaxTemp while the other two are
\* 0, or all three are next to a threshold
EdgeTemps == {69, 70, 71, 79, 80, 81, 84, 85, 86, 94, 95, 96}
RowTemps ==
    {<<t, 0, 0>> : t \in 0..MaxTemp} \cup
    {<<0, t, 0>> : t \in 0..MaxTemp} \cup
    {<<0, 0, t>> : t \in 0..MaxTemp} \cup
    (EdgeTemps \X EdgeTemps \X EdgeTemps)

HarnessRow ==
    /\ harness
    /\ pc = "row"
    /\ ctx' = print_gpu_info(ctx, 0, gpu)
    /\ pc' = "row_done"
    /\ UNCHANGED <<argv, running, handlers, term, atexit_list, stdout_buf,
                   stdout_out, exit_code, log, loc, gpu, gt, refresh_counter,
                   hist>>
    /\ UNCHANGED regvars

InitRow ==
    /\ argv = << >>
    /\ pc = "row"
    /\ ctx = Ctx0
    /\ running = 1
    /\ handlers = FALSE
    /\ term = [mode |-> "orig", cursor |-> "shown"]
    /\ atexit_list = << >>
    /\ stdout_buf = << >>
    /\ stdout_out = << >>
    /\ exit_code = NotExited
    /\ log = << >>
    /\ loc = Loc0
    /\ \E t \in RowTemps :
          gpu = [Gpu0 EXCEPT !.gpu_temp = t[1], !.junction_temp = t[2],
                            !.vram_temp = t[3]]
    /\ gt = Gt0
    /\ refresh_counter = 0
    /\ hist = Hist0
    /\ harness = TRUE
    /\ rr = RRIdle
    /\ fds = 0
    /\ maps = 0

NextRow == HarnessRow

SpecRow == InitRow /\ [][NextRow]_vars

----------------------------------------------------------------------------
(* Properties *)

Continuous == ctx.output_mode = MODE_CONTINUOUS
TableMode == ctx.output_format = FORMAT_TABLE
JsonMode == ctx.output_format = FORMAT_JSON

\* get_gpu_temps has returned -1 in the cycle hist.cycles
SampleHasFailed ==
    /\ gt.ret # 0
    /\ pc \in {"sampled", "wait", "cleanup", "atexit", "exited"}

\* the items written to standard output that belong to cycle c
WrittenOfCycle(c) ==
    {n \in 1..Len(stdout_out) : stdout_out[n].cyc = c}

Count(ev) == Cardinality({n \in 1..Len(log) : log[n] = ev})

\* the events of the log that are one of evs, in order
RECURSIVE Only(_, _)
Only(l, evs) ==
    IF l = << >> THEN << >>
    ELSE IF Head(l) \in evs THEN <<Head(l)>> \o Only(Tail(l), evs)
    ELSE Only(Tail(l), evs)

\* s is t with some elements left out
RECURSIVE IsSubsequence(_, _)
IsSubsequence(s, t) ==
    IF s = << >> THEN TRUE
    ELSE IF t = << >> THEN FALSE
    ELSE IF Head(s) = Head(t) THEN IsSubsequence(Tail(s), Tail(t))
    ELSE IsSubsequence(s, Tail(t))

Releases == {"reset_terminal", "restore_cursor", "nvmlShutdown", "pci_cleanup"}

\* C1 (as claimed): in table and in JSON mode, when get_gpu_temps fails for
\* a device during a cycle, nothing of that cycle is written to standard
\* output, neither header nor rows of earlier devices.
C1_NoPartialCycle ==
    SampleHasFailed => WrittenOfCycle(hist.cycles) = {}

\* C2: in continuous mode a failure of get_gpu_temps starts no further
\* cycle, the process ends with exit code 1, and in table mode the terminal
\* is back in its original mode with the cursor visible when it ends.
C2_FailureIsFatal ==
    /\ [][(Continuous /\ SampleHasFailed) => hist'.cycles = hist.cycles]_vars
    /\ [](Continuous /\ SampleHasFailed /\ pc = "exited" =>
            /\ exit_code = 1
            /\ TableMode => term = [mode |-> "orig", cursor |-> "shown"])
    /\ (Continuous /\ SampleHasFailed) ~> (pc = "exited")

C2_Witness ==
    /\ Continuous /\ TableMode /\ SampleHasFailed
    /\ pc = "exited"
    /\ hist.cycles = 2
    /\ hist.waits = 1
    /\ exit_code = 1

\* C3 (as claimed): when main has exited, each resource has been released
\* exactly once iff it was acquired: nvmlShutdown iff nvmlInit succeeded,
\* pci_cleanup iff pci_alloc succeeded, the terminal mode and the cursor
\* restored iff they were changed.
C3_ReleasedIffChanged ==
    pc = "exited" =>
        /\ Count("nvmlShutdown") = Count("nvmlInit")
        /\ Count("pci_cleanup") = Count("pci_alloc")
        /\ Count("reset_terminal") = Count("tcsetattr_raw")
        /\ Count("restore_cursor") = Count("cursor_hide")
        /\ \A ev \in Releases : Count(ev) <= 1

\* C3 (amended): as claimed for NVML, the PCI handle and the cursor; the
\* terminal mode is restored exactly once iff tcgetattr succeeded, which
\* includes the exit where tcsetattr then failed and the mode never changed.
C3_ReleasedOnce ==
    /\ \A ev \in Releases : Count(ev) <= 1
    /\ Count("nvmlShutdown") <= Count("nvmlInit")
    /\ Count("pci_cleanup") <= Count("pci_alloc")
    /\ Count("reset_terminal") <= Count("tcgetattr")
    /\ Count("restore_cursor") <= Count("cursor_hide")
    /\ pc = "exited" =>
        /\ Count("nvmlShutdown") = Count("nvmlInit")
        /\ Count("pci_cleanup") = Count("pci_alloc")
        /\ Count("reset_terminal") = Count("tcgetattr")
        /\ Count("restore_cursor") = Count("cursor_hide")
        /\ ctx.initialized = 0
        /\ ~ctx.pacc.valid
        /\ term = [mode |-> "orig", cursor |-> "shown"]

C3_Witness ==
    /\ pc = "exited"
    /\ Count("tcgetattr") = 1
    /\ Count("tcsetattr_raw") = 0
    /\ Count("reset_terminal") = 1

\* C4 (as claimed): in table mode the terminal mode and the cursor are
\* restored first, then NVML is shut down, then the PCI handle is released.
C4_TerminalFirst ==
    (TableMode /\ pc = "exited") =>
        \/ IsSubsequence(Only(log, Releases),
             <<"reset_terminal", "restore_cursor", "nvmlShutdown",
               "pci_cleanup">>)
        \/ IsSubsequence(Only(log, Releases),
             <<"restore_cursor", "reset_terminal", "nvmlShutdown",
               "pci_cleanup">>)

\* C4 (amended): in table mode NVML is shut down first, then the PCI handle
\* is released, both before main returns; after main has returned the
\* cursor is made visible and then the terminal mode is restored.
C4_TeardownOrder ==
    TableMode =>
        IsSubsequence(Only(log, Releases),
             <<"nvmlShutdown", "pci_cleanup", "restore_cursor",
               "reset_terminal">>)

C4_Witness ==
    /\ TableMode
    /\ pc = "exited"
    /\ Only(log, Releases) =
         <<"nvmlShutdown", "pci_cleanup", "restore_cursor", "reset_terminal">>

\* all four identity fields of a PCI record equal those NVML reports
SameIdentity(dev, info) ==
    /\ dev.vendor_id = info.pciDeviceId % HalfWord
    /\ dev.device_id = info.pciDeviceId \div HalfWord
    /\ dev.domain = info.domain
    /\ dev.bus = info.bus
    /\ dev.dev = info.device

\* C5: get_gpu_temps reads registers through a PCI record iff the record
\* equals the NVML identity on all four fields; the record used is the first
\* such record of the list; when there is none the call returns -1 and has
\* read no register.
C5_Correlation ==
    LET devs == ctx.pacc.devices
        info == NvmlPciInfo(gt.index)
        same == {k \in 1..Len(devs) : SameIdentity(devs[k], info)}
    IN  /\ pc \in {"gt_junction", "gt_vram"} =>
              /\ gt.used \in same
              /\ \A j \in same : gt.used <= j
              /\ gt.base = devs[gt.used].base_addr
              /\ rr.pc \in {"open", "mmap", "read"} => rr.base = gt.base
        /\ (pc = "sampled" /\ gpu.pci_info = info) =>
              /\ gt.used = 0 <=> same = {}
              /\ gt.used # 0 => gt.used \in same /\ \A j \in same : gt.used <= j
              /\ same = {} => gt.ret = -1 /\ gt.reads = 0
        /\ (ctx.pacc.valid /\ gt.reads > 0) => gt.used \in same

C5_Witness ==
    /\ pc = "gt_vram"
    /\ Len(ctx.pacc.devices) = 4
    /\ gt.used = 2
    /\ gt.reads = 2

C5_WitnessNoMatch ==
    /\ pc = "sampled"
    /\ Len(ctx.pacc.devices) = 5
    /\ gpu.pci_info = NvmlPciInfo(gt.index)
    /\ gt.ret = -1
    /\ gt.reads = 0

\* C6 (as claimed): read_register_temp returns 0 whenever open and mmap
\* both succeeded and -1 exactly when one of them failed, so get_gpu_temps
\* returns 0 when every step of it succeeded.
C6_ReadReportsSuccess ==
    /\ rr.pc = "returned" =>
          /\ rr.read => rr.ret = 0
          /\ ~rr.read <=> rr.ret = -1
    /\ (pc = "sampled" /\ gt.reads = 2 /\ rr.read) => gt.ret = 0

\* C7 (as claimed): for every region-0 base address, also at or above 2^32,
\* the mapped window starts at the page floor of base + offset, is one page
\* long, and the word is read at (base + offset) - page floor, inside it.
C7_WindowAtTarget ==
    rr.pc = "read" =>
        LET target == AddrAdd(rr.base, ToAddr(rr.offset))
        IN  /\ rr.win = PageFloor(target)
            /\ rr.winlen = PG_SZ
            /\ rr.rdoff = AddrSub(target, PageFloor(target))
            /\ rr.rdoff >= 0
            /\ rr.rdoff + 4 <= rr.winlen

Pow2(k) == IF k = 0 THEN 1 ELSE 2 ^ k

\* bit k of a 32-bit word
Bit(w, k) ==
    IF k < 16 THEN (w.lo \div Pow2(k)) % 2 ELSE (w.hi \div Pow2(k - 16)) % 2

RECURSIVE BitField(_, _, _)
\* the number formed by bits a..b of the word
BitField(w, a, b) ==
    IF b < a THEN 0 ELSE Bit(w, a) + 2 * BitField(w, a + 1, b)

\* C8: for every raw word the junction decode is bits 8..15 of the word, a
\* value in 0..255, and the VRAM decode is bits 0..11 divided by 32, a value
\* in 0..127; which of the two applies depends on the offset only.
C8_Decode ==
    (rr.pc = "returned" /\ rr.read) =>
        /\ rr.offset = HOTSPOT_REGISTER_OFFSET =>
              /\ rr.temp = BitField(rr.reg_value, 8, 15)
              /\ rr.temp \in 0..255
        /\ rr.offset = VRAM_REGISTER_OFFSET =>
              /\ rr.temp = BitField(rr.reg_value, 0, 11) \div 32
              /\ rr.temp \in 0..127

C8_Witness ==
    /\ rr.pc = "returned"
    /\ rr.read
    /\ rr.offset = VRAM_REGISTER_OFFSET
    /\ rr.reg_value = [hi |-> HalfWord - 1, lo |-> 4095]
    /\ rr.temp = 127

\* C9: in continuous mode, once signal_handler has cleared the flag no new
\* cycle is started, and the process goes on to end through
\* cleanup_context (NVML shut down, PCI handle released).
C9_SignalStopsLoop ==
    /\ [][(Continuous /\ running = 0) => hist'.cycles = hist.cycles]_vars
    /\ (Continuous /\ running = 0) ~>
          (pc = "exited" /\ Count("nvmlShutdown") = 1
             /\ Count("pci_cleanup") = 1)

C9_Witness ==
    /\ Continuous
    /\ running = 0
    /\ pc = "exited"
    /\ hist.cycles = 1
    /\ hist.waits = 1
    /\ exit_code = 0
    /\ Count("nvmlShutdown") = 1

\* a complete record or table of the cycle is on standard output
CycleComplete ==
    \E n \in WrittenOfCycle(hist.cycles) :
        stdout_out[n].k \in {"json_tail", "cursor_up"}

\* C10: with --once, in either format, one cycle is performed: no device
\* index is sampled twice, there is no wait and no second cycle; the exit
\* code is 0 if the cycle succeeded, with every index below device_count
\* sampled once, and 1 if it failed.
C10_Once ==
    ctx.output_mode = MODE_ONCE =>
        /\ hist.cycles <= 1
        /\ hist.waits = 0
        /\ \A d \in DOMAIN hist.sampled : hist.sampled[d] <= 1
        /\ (pc = "exited" /\ hist.cycles = 1) =>
              /\ exit_code \in {0, 1}
              /\ exit_code = 0 <=> CycleComplete
              /\ exit_code = 1 <=> gt.ret # 0
              /\ exit_code = 0 =>
                    \A d \in DOMAIN hist.sampled :
                        hist.sampled[d] = IF d < ctx.device_count THEN 1 ELSE 0

C10_Witness ==
    /\ ctx.output_mode = MODE_ONCE
    /\ JsonMode
    /\ pc = "exited"
    /\ ctx.device_count = 2
    /\ exit_code = 0
    /\ hist.sampled[0] = 1
    /\ hist.sampled[1] = 1

\* nothing has been changed, acquired or sampled, and nothing but the
\* usage text has been printed
NothingAcquired ==
    /\ term = [mode |-> "orig", cursor |-> "shown"]
    /\ atexit_list = << >>
    /\ ~handlers
    /\ ctx.initialized = 0
    /\ ~ctx.pacc.valid
    /\ hist.cycles = 0
    /\ \A d \in DOMAIN hist.sampled : hist.sampled[d] = 0
    /\ fds = 0 /\ maps = 0
    /\ stdout_buf = << >> /\ stdout_out = << >>
    /\ \A n \in 1..Len(log) : log[n] \in {"unknown_argument", "print_usage"}

\* C11 (as claimed): when some argument is not one of --json, --once and
\* --help the process prints the usage and exits with code 1 before any
\* terminal change, privilege check, initialization or sampling; with
\* --help it exits with code 0 and nothing acquired.
C11_AnyUnknownExits1 ==
    /\ hist.unknown =>
          /\ NothingAcquired
          /\ pc = "exited" => (exit_code = 1 /\ Count("print_usage") = 1)
    /\ hist.help =>
          /\ NothingAcquired
          /\ pc = "exited" => (exit_code = 0 /\ Count("print_usage") = 1)

\* C11 (amended): the arguments are read in order and the first one that is
\* not --json or --once decides: an unknown one prints the message and the
\* usage and exits with code 1, --help prints the usage and exits with code
\* 0, in both cases with nothing changed, acquired or sampled, and whatever
\* follows that argument is not looked at.
C11_FirstStopDecides ==
    /\ hist.first # "none" => NothingAcquired
    /\ (hist.first = "unknown" /\ pc \in {"atexit", "exited"}) =>
          (exit_code = 1 /\ log = <<"unknown_argument", "print_usage">>)
    /\ (hist.first = "--help" /\ pc \in {"atexit", "exited"}) =>
          (exit_code = 0 /\ log = <<"print_usage">>)
    /\ (hist.first = "none" /\ pc \in {"atexit", "exited"}) =>
          Count("print_usage") = 0

C11_Witness ==
    /\ hist.first = "--help"
    /\ hist.unknown
    /\ pc = "exited"
    /\ exit_code = 0
    /\ log = <<"print_usage">>

\* the items written to standard output in the current cycle, in order
RecordOfCycle == SelectSeq(stdout_out, LAMBDA it : it.cyc = hist.cycles)

\* C12: when a JSON cycle over N devices has succeeded, standard output
\* holds exactly one record of that cycle: the opening with one timestamp,
\* then N objects with the indices 0..N-1 in ascending order, separated by
\* commas, then the closing; the object of index d carries the core,
\* junction and VRAM values get_gpu_temps obtained for index d in that
\* cycle, so no value is attributed to another device.
C12_JsonRecord ==
    (JsonMode /\ CycleComplete) =>
        LET rec == RecordOfCycle
            N == ctx.device_count
        IN  /\ Len(rec) = 2 * N + 1
            /\ rec[1].k = "json_head"
            /\ rec[1].v = <<loc.now>>
            /\ loc.now \in Times
            /\ \A d \in 0..(N - 1) :
                  /\ rec[2 + 2 * d].k = "json_obj"
                  /\ rec[2 + 2 * d].idx = d
                  /\ rec[2 + 2 * d].v = hist.vals[d]
                  /\ hist.sampled[d] = 1
            /\ \A d \in 1..(N - 1) : rec[1 + 2 * d].k = "json_comma"
            /\ rec[2 * N + 1].k = "json_tail"
            /\ \A n \in 1..Len(rec) : ~rec[n].cut

C12_Witness ==
    /\ JsonMode
    /\ Continuous
    /\ CycleComplete
    /\ hist.cycles = 2
    /\ ctx.device_count = 2
    /\ Len(RecordOfCycle) = 5
    /\ RecordOfCycle[2].v = hist.vals[0]
    /\ RecordOfCycle[4].v = hist.vals[1]
    /\ hist.vals[0][1] # hist.vals[1][1]
    /\ hist.vals[0][2] # hist.vals[1][2]
    /\ hist.vals[0][3] # hist.vals[1][3]
    /\ hist.vals[0][2] # hist.vals[0][3]

\* the band a colour stands for, by the thresholds of the claim
InBand(color, t, warn, danger) ==
    /\ color = "COLOR_RED" <=> t >= danger
    /\ color = "COLOR_YELLOW" <=> (warn <= t /\ t < danger)
    /\ color = "COLOR_GREEN" <=> t < warn
    /\ color \in {"COLOR_RED", "COLOR_YELLOW", "COLOR_GREEN"}

\* C13: the row print_gpu_info formats colours every temperature by its
\* band, the boundaries included: danger iff temp >= the danger threshold,
\* warn iff warn threshold <= temp < danger threshold, normal iff temp < the
\* warn threshold, with the thresholds 70/85 for core and 80/95 for junction
\* and VRAM.
C13_Bands ==
    pc = "row_done" =>
        LET r == ctx.output_buffer[1].v
        IN  /\ r[2] = gpu.gpu_temp
            /\ r[4] = gpu.junction_temp
            /\ r[6] = gpu.vram_temp
            /\ InBand(r[1], r[2], 70, 85)
            /\ InBand(r[3], r[4], 80, 95)
            /\ InBand(r[5], r[6], 80, 95)

C13_Witness ==
    /\ pc = "row_done"
    /\ ctx.output_buffer[1].v =
          <<"COLOR_YELLOW", 70, "COLOR_RED", 95, "COLOR_GREEN", 79>>

\* C14 (as claimed): in table mode, once setup_terminal has changed the
\* terminal mode, a termination signal delivered at any later point, also
\* during initialization before the handlers are installed, leaves the
\* terminal in its original mode with the cursor visible when the process
\* has ended.
C14_RestoredAfterSignal ==
    ( /\ TableMode
      /\ Count("tcsetattr_raw") = 1
      /\ pc = "killed" \/ (pc = "exited" /\ running = 0) )
    => term = [mode |-> "orig", cursor |-> "shown"]

\* C15 (as claimed): for every device count N >= 1 a successful table cycle
\* writes the marker line, one header line and exactly N device lines, one
\* per index 0..N-1 in order, none dropped or cut short, and then the
\* cursor-up sequence with the distance N + 2.
C15_TableLines ==
    (TableMode /\ CycleComplete) =>
        LET rec == RecordOfCycle
            N == ctx.device_count
        IN  /\ Len(rec) = N + 3
            /\ rec[1].k = "marker"
            /\ rec[2].k = "header"
            /\ \A d \in 0..(N - 1) :
                  /\ rec[3 + d].k = "row"
                  /\ rec[3 + d].idx = d
                  /\ ~rec[3 + d].cut
            /\ rec[N + 3].k = "cursor_up"
            /\ rec[N + 3].v = <<N + 2>>
            /\ ~rec[N + 3].cut

\* a cycle after the first one of a continuous loop is about to start
LaterCycleStarts ==
    /\ Continuous
    /\ pc \in {"table_begin", "json_begin"}
    /\ hist.cycles >= 2

\* C16 (as claimed): in both continuous loops, between the end of a
\* successful cycle and the start of the next there is exactly one bounded
\* wait, of one REFRESH_DURATION, the same in table and in JSON mode.
C16_OneWaitPerCycle ==
    LaterCycleStarts =>
        /\ hist.gap = 1
        /\ hist.gap_s = REFRESH_DURATION

\* C17: a byte read from standard input during the wait after a cycle ends
\* the wait at once and cancels the loop: no further cycle starts,
\* cleanup_context runs (NVML shut down, PCI access released) and the
\* process exits with code 0; when the wait ends without a byte and the
\* loop condition finds the flag still set, the next cycle starts.
C17_KeystrokeCancels ==
    /\ [][(~hist.key /\ hist'.key) => (pc = "wait" /\ pc' = "loop_exit")]_vars
    /\ [][hist.key => hist'.cycles = hist.cycles]_vars
    /\ [](hist.key /\ pc = "exited" =>
            /\ exit_code = 0
            /\ Count("nvmlShutdown") = 1
            /\ Count("pci_cleanup") = 1
            /\ ctx.initialized = 0
            /\ ~ctx.pacc.valid)
    /\ hist.key ~> (pc = "exited")
    /\ [][(pc = "wait" /\ pc' # pc /\ ~hist'.key) =>
             pc' = IF JsonMode THEN "sleep" ELSE "loop_test"]_vars
    /\ [][(pc = "sleep" /\ pc' # pc) => pc' = "loop_test"]_vars
    /\ [][(pc = "loop_test" /\ running = 1 /\ pc' # pc) =>
             /\ pc' = IF JsonMode THEN "json_begin" ELSE "table_begin"
             /\ hist'.cycles = hist.cycles + 1]_vars
    /\ (pc = "loop_test" /\ running = 1 /\ hist.cycles < MaxCycles) ~>
          (pc \in {"json_begin", "table_begin"} \/ running = 0)

C17_Witness ==
    /\ hist.key
    /\ JsonMode
    /\ pc = "exited"
    /\ exit_code = 0
    /\ hist.cycles = 2
    /\ hist.waits = 2
    /\ Count("nvmlShutdown") = 1

\* C18: the descriptor of /dev/mem and the mapping live only inside one
\* call of read_register_temp: whenever no call is under way, after a
\* return by any path (open failed, mmap failed, or the register was read),
\* none is open or mapped, and at no time is there more than one of each.
C18_CallScoped ==
    /\ fds \in 0..1
    /\ maps \in 0..1
    /\ maps <= fds
    /\ rr.pc \in {"idle", "open", "returned"} => (fds = 0 /\ maps = 0)
    /\ pc \notin {"gt_junction", "gt_vram"} => (fds = 0 /\ maps = 0)

\* the return after a failed mmap, in the read of the VRAM register
C18_Witness ==
    /\ pc = "gt_vram"
    /\ rr.pc = "returned"
    /\ rr.fd = 3
    /\ ~rr.read
    /\ rr.ret = -1
    /\ fds = 0
    /\ maps = 0

\* the marker items written to standard output, in order
Markers == SelectSeq(stdout_out, LAMBDA it : it.k = "marker")

\* C19: in continuous table mode the marker at the start of the table
\* alternates from cycle to cycle, beginning with the blank one: the first
\* cycle shows "  ", the second "* ", and any two consecutive cycles differ.
C19_MarkerAlternates ==
    (TableMode /\ Continuous) =>
        /\ \A n \in 1..Len(Markers) :
              /\ Markers[n].cyc = n
              /\ Markers[n].v = <<IF n % 2 = 1 THEN "  " ELSE "* ">>
        /\ \A n \in 1..(Len(Markers) - 1) : Markers[n].v # Markers[n + 1].v
        /\ pc \in {"gt_begin", "gt_junction", "gt_vram", "sampled",
                   "table_end"} =>
              /\ ctx.output_buffer[1].k = "marker"
              /\ ctx.output_buffer[1].v =
                    <<IF hist.cycles % 2 = 1 THEN "  " ELSE "* ">>

C19_Witness ==
    /\ TableMode
    /\ Continuous
    /\ Len(Markers) = 2
    /\ Markers[1].v = <<"  ">>
    /\ Markers[2].v = <<"* ">>

\* the bytes the items of a buffer take
RECURSIVE BufBytes(_)
BufBytes(buf) ==
    IF buf = << >> THEN 0 ELSE Head(buf).len + BufBytes(Tail(buf))

\* C20: the write position of the output buffer always satisfies
\* 0 <= buffer_pos < BUFFER_SIZE and the text in the buffer, with its
\* terminating byte, never extends past the end of the array; a table cycle
\* starts from position 0, so that after marker and header the buffer holds
\* nothing of an earlier cycle; and a row that does not fit in the space
\* left leaves buffer_pos as it was, while one that fits advances it by its
\* length.
C20_BufferBounded ==
    /\ [](/\ 0 <= ctx.buffer_pos
          /\ ctx.buffer_pos < BUFFER_SIZE
          /\ BufBytes(ctx.output_buffer) + 1 <= BUFFER_SIZE
          /\ BufBytes(Committed(ctx.output_buffer, ctx.buffer_pos)) =
                ctx.buffer_pos)
    /\ [][(pc = "table_begin" /\ pc' # pc) =>
             /\ ctx'.buffer_pos = 3 + 37
             /\ Len(ctx'.output_buffer) = 2
             /\ \A n \in 1..2 : ctx'.output_buffer[n].cyc = hist.cycles]_vars
    /\ [][(pc = "sampled" /\ TableMode /\ pc' \in {"gt_begin", "table_end"}) =>
             LET need == Digits(loc.i) + 68
             IN  ctx'.buffer_pos =
                    IF ctx.buffer_pos + need + 1 <= BUFFER_SIZE
                       THEN ctx.buffer_pos + need
                       ELSE ctx.buffer_pos]_vars

\* the row of index 14 did not fit after fourteen rows
C20_Witness ==
    /\ TableMode
    /\ pc = "table_end"
    /\ ctx.device_count = 15
    /\ loc.valid_readings = 15
    /\ ctx.buffer_pos = 1010
    /\ Len(ctx.output_buffer) = 17
    /\ ctx.output_buffer[17].cut
    /\ ctx.output_buffer[17].idx = 14

====
